---- MODULE Spec2Model ----
(***************************************************************************)
(* Year-over-year financial comparison pipeline (data_processor.py):       *)
(* load_data -> clean_data -> calculate_differences ->                     *)
(* get_summary_statistics, as driven by process_complete_pipeline and      *)
(* run_analysis, and the rest of run_analysis and main (comparativo.py):   *)
(* export, render, opening of the outputs, return value and exit code.     *)
(*                                                                         *)
(* Numbers.  A money value is an integer count of hundredths (1234.56 is   *)
(* 123456), so every value with at most two decimals is exact and          *)
(* subtraction and sums are exact.  A percentage is the exact quotient     *)
(* num/den kept as the pair [num, den] with den >= 0; den = 0 stands for   *)
(* the IEEE results of a division by zero (num > 0: +inf, num < 0: -inf,   *)
(* num = 0: NaN), and the comparison p > k is num > k * den, which is      *)
(* FALSE for NaN and for -inf and TRUE for +inf, as in IEEE arithmetic.    *)
(* Binary floating-point rounding is not modelled.                         *)
(*                                                                         *)
(* Text.  A text cell is a sequence of one-character strings.              *)
(***************************************************************************)
EXTENDS Integers, Sequences, FiniteSets, TLC

VARIABLES pc, raw, clean, df, summary, refiltered, probe,
          analyzer, no_open, disk, calls, result, exit_code

vars == <<pc, raw, clean, df, summary, refiltered, probe,
          analyzer, no_open, disk, calls, result, exit_code>>

\* The state of main and run_analysis around the pipeline: the analyzer
\* main constructed (its override and its own config), the --no-open
\* argument, the files on disk (and which outputs an earlier run left), the
\* stages invoked so far with their outcomes, the value run_analysis
\* returned and the exit code of main.
runVars == <<analyzer, no_open, disk, calls, result, exit_code>>

\* Largest number of rows of a loaded sheet.
MaxRows == 2

\* _classify_variation is also called on its own with the percentages
\* -ProbeRange .. ProbeRange in steps of one half.
ProbeRange == 25

----------------------------------------------------------------------------
(* Cells of a DataFrame.  k is the Python type of the element:             *)
(* "int", "float" (v in hundredths), "nan" (float NaN, a blank cell),      *)
(* "str" (s, the characters).                                              *)

NaNCell == [k |-> "nan", v |-> 0, s |-> <<>>]
IntCell(n) == [k |-> "int", v |-> n * 100, s |-> <<>>]
FloatCell(h) == [k |-> "float", v |-> h, s |-> <<>>]
StrCell(t) == [k |-> "str", v |-> 0, s |-> t]

IsNum(c) == c.k \in {"int", "float"}

Abs(n) == IF n < 0 THEN -n ELSE n

DigitChars == <<"0", "1", "2", "3", "4", "5", "6", "7", "8", "9">>

IsDigit(ch) == \E i \in 1..10 : DigitChars[i] = ch

DigitVal(ch) == (CHOOSE i \in 1..10 : DigitChars[i] = ch) - 1

RECURSIVE NatStr(_)
\* str(n) of a natural number: its decimal digits.
NatStr(n) ==
    IF n < 10 THEN <<DigitChars[n + 1]>>
    ELSE NatStr(n \div 10) \o <<DigitChars[(n % 10) + 1]>>

SignStr(h) == IF h < 0 THEN <<"-">> ELSE <<>>

\* str of an integer element (int64 column or Python int): "100", "-5".
IntStr(h) == SignStr(h) \o NatStr(Abs(h) \div 100)

\* str of a float element: the shortest repr, always with a decimal point
\* and at least one decimal: 100.0 -> "100.0", 1234.5 -> "1234.5",
\* 0.07 -> "0.07".
FloatStr(h) ==
    LET a == Abs(h)
        f == a % 100
    IN  SignStr(h) \o NatStr(a \div 100) \o <<".">> \o
        (IF f % 10 = 0 THEN NatStr(f \div 10)
         ELSE <<DigitChars[(f \div 10) + 1], DigitChars[(f % 10) + 1]>>)

\* Series.astype(str), one element.
AsStr(c) ==
    CASE c.k = "int" -> IntStr(c.v)
      [] c.k = "float" -> FloatStr(c.v)
      [] c.k = "nan" -> <<"n", "a", "n">>
      [] OTHER -> c.s

\* The characters of the class [R$.,\s].
StripChars == {"R", "$", ".", ",", " "}

NotStripped(ch) == ch \notin StripChars

\* Series.str.replace('[R$.,\s]', '', regex=True), one element.
StrReplace(t) == SelectSeq(t, NotStripped)

RECURSIVE ParseNat(_)
ParseNat(t) ==
    IF Len(t) = 0 THEN 0
    ELSE 10 * ParseNat(SubSeq(t, 1, Len(t) - 1)) + DigitVal(t[Len(t)])

AllDigits(t) == Len(t) > 0 /\ \A i \in 1..Len(t) : IsDigit(t[i])

\* pd.to_numeric(errors='coerce'), one element: an optionally signed run
\* of digits is that integer, anything else (the empty string, "nan",
\* letters, a misplaced sign) becomes NaN instead of raising.  The texts
\* of the model hold no exponent and no "inf", which pandas would parse.
ToNumeric(t) ==
    IF AllDigits(t) THEN IntCell(ParseNat(t))
    ELSE IF Len(t) > 1 /\ t[1] = "-" /\ AllDigits(Tail(t))
         THEN IntCell(-ParseNat(Tail(t)))
         ELSE NaNCell

\* The dtype pandas gives a column: with a string element the column is
\* object and every element keeps its type; all integers is int64; any
\* other numeric column is float64, where integers become floats.
InferColumn(cells) ==
    IF \E i \in 1..Len(cells) : cells[i].k = "str" THEN cells
    ELSE IF \A i \in 1..Len(cells) : cells[i].k = "int" THEN cells
    ELSE [i \in 1..Len(cells) |->
            IF cells[i].k = "int" THEN FloatCell(cells[i].v) ELSE cells[i]]

----------------------------------------------------------------------------
(* Tables.  A DataFrame is its column names in order and its rows in       *)
(* order; a row keeps its index label idx (the row's position in the       *)
(* sheet it was read from) and one cell per column.                        *)

\* CONFIG["column_names"] and CONFIG["value_columns"].
column_names == <<"Conta", "Valor_2024", "Perc_2024", "Valor_2025", "Perc_2025">>
value_columns == <<"Valor_2024", "Valor_2025">>

EmptyTable == [cols |-> <<>>, rows |-> <<>>]

\* col in df.columns
HasCol(t, col) == \E j \in 1..Len(t.cols) : t.cols[j] = col

ColPos(t, col) == CHOOSE j \in 1..Len(t.cols) : t.cols[j] = col

\* df[col], one row.
At(t, r, col) == r.cells[ColPos(t, col)]

\* df.empty: no rows or no columns.
IsEmpty(t) == Len(t.rows) = 0 \/ Len(t.cols) = 0

\* The DataFrame pandas builds from a sheet's cells: rows labelled
\* 0, 1, ... and every column given its dtype.
read_excel(cols, body) ==
    LET n == Len(body)
        Inferred(j) == InferColumn([i \in 1..n |-> body[i][j]])
    IN  [cols |-> cols,
         rows |-> [i \in 1..n |->
                     [idx |-> i - 1,
                      cells |-> [j \in 1..Len(cols) |-> Inferred(j)[i]]]]]

RECURSIVE Reverse(_)
Reverse(q) == IF Len(q) = 0 THEN <<>> ELSE Append(Reverse(Tail(q)), Head(q))

\* dropna that hands the kept rows back last row first.
DropNaAllReversed(t) ==
    LET Keep(r) == \E j \in 1..Len(r.cells) : r.cells[j].k # "nan"
    IN  [t EXCEPT !.rows = Reverse(SelectSeq(t.rows, Keep))]

\* df.dropna(how="all"): a row goes only if every cell of it is NaN.
DropNaAll(t) ==
    LET Keep(r) == \E j \in 1..Len(r.cells) : r.cells[j].k # "nan"
    IN  [t EXCEPT !.rows = SelectSeq(t.rows, Keep)]

\* The first len(column_names) columns take the configured names when the
\* table has at least that many columns; the others keep theirs.
RenameColumns(t) ==
    IF Len(t.cols) >= Len(column_names)
    THEN [t EXCEPT !.cols =
            column_names \o SubSeq(t.cols, Len(column_names) + 1, Len(t.cols))]
    ELSE t

\* The Numeric Normalizer on one cell: astype(str), strip, to_numeric.
Normalize(c) == ToNumeric(StrReplace(AsStr(c)))

\* df[col] = pd.to_numeric(df[col].astype(str).str.replace(...), 'coerce')
\* for one value column, when the table has it.
ConvertColumn(t, col) ==
    IF ~HasCol(t, col) THEN t
    ELSE LET j == ColPos(t, col)
             n == Len(t.rows)
             conv == InferColumn([i \in 1..n |-> Normalize(t.rows[i].cells[j])])
         IN  [t EXCEPT !.rows =
                [i \in 1..n |-> [t.rows[i] EXCEPT !.cells[j] = conv[i]]]]

RECURSIVE ConvertColumns(_, _)
ConvertColumns(t, colnames) ==
    IF Len(colnames) = 0 THEN t
    ELSE ConvertColumns(ConvertColumn(t, Head(colnames)), Tail(colnames))

\* The null filter as dropna(subset=value_columns, how="all"): a row goes
\* only if every value column of it is null.
DropNonNumericAll(t) ==
    LET Keep(r) == \E c \in 1..Len(value_columns) :
                      /\ HasCol(t, value_columns[c])
                      /\ At(t, r, value_columns[c]).k # "nan"
    IN  [t EXCEPT !.rows = SelectSeq(t.rows, Keep)]

\* df = df[df[col].notna()] for every value column the table has.
DropNonNumeric(t) ==
    LET Keep(r) == \A c \in 1..Len(value_columns) :
                      HasCol(t, value_columns[c])
                          => At(t, r, value_columns[c]).k # "nan"
    IN  [t EXCEPT !.rows = SelectSeq(t.rows, Keep)]

\* element == 0
IsZero(c) == IsNum(c) /\ c.v = 0

\* The all-zero filter without its negation: only all-zero rows stay.
DropAllZeroInverted(t) ==
    LET AllZero(r) == \A c \in 1..Len(value_columns) :
                         HasCol(t, value_columns[c])
                             => IsZero(At(t, r, value_columns[c]))
    IN  [t EXCEPT !.rows = SelectSeq(t.rows, AllZero)]

\* df = df[~(df[value_cols] == 0).all(axis=1)], value_cols being the value
\* columns the table has: all() over no column at all is True.
DropAllZero(t) ==
    LET AllZero(r) == \A c \in 1..Len(value_columns) :
                         HasCol(t, value_columns[c])
                             => IsZero(At(t, r, value_columns[c]))
        Keep(r) == ~AllZero(r)
    IN  [t EXCEPT !.rows = SelectSeq(t.rows, Keep)]

\* FinancialDataProcessor.clean_data
clean_data(t) ==
    DropAllZero(
        DropNonNumeric(
            ConvertColumns(RenameColumns(DropNaAll(t)), value_columns)))

----------------------------------------------------------------------------
(* Delta Calculator and Variation Classifier.                              *)

RECURSIVE GCD(_, _)
GCD(a, b) == IF b = 0 THEN a ELSE GCD(b, a % b)

LCM(a, b) == IF a = 0 \/ b = 0 THEN 0 ELSE (a \div GCD(a, b)) * b

\* A percentage, the exact quotient num/den (den >= 0; den = 0 is inf/NaN),
\* kept in lowest terms.
Pct(num, den) ==
    LET g == GCD(Abs(num), den)
    IN  IF g = 0 THEN [num |-> 0, den |-> 0]
        ELSE [num |-> num \div g, den |-> den \div g]

\* p > k for a number k.
PctGT(p, k) == p.num > k * p.den

\* p > q, p < q and p == q between two percentages (all FALSE on NaN).
\* Both are brought to the common denominator; with an inf or a NaN the
\* cross products give the IEEE answer.
PctGreater(p, q) ==
    LET l == LCM(p.den, q.den)
    IN  IF l = 0 THEN p.num * q.den > q.num * p.den
        ELSE p.num * (l \div p.den) > q.num * (l \div q.den)
PctLess(p, q) == PctGreater(q, p)
PctIsNaN(p) == p.num = 0 /\ p.den = 0

\* The subtraction with its operands exchanged.
SubtractReversed(cur, prior) ==
    IF ~IsNum(cur) \/ ~IsNum(prior) THEN NaNCell
    ELSE FloatCell(prior.v - cur.v)

\* df["Valor_2025"] - df["Valor_2024"], one row: exact, int when both are.
Subtract(cur, prior) ==
    IF ~IsNum(cur) \/ ~IsNum(prior) THEN NaNCell
    ELSE IF cur.k = "int" /\ prior.k = "int"
         THEN [k |-> "int", v |-> cur.v - prior.v, s |-> <<>>]
         ELSE FloatCell(cur.v - prior.v)

\* (diff / prior) * 100, the quotient as numpy computes it for every row,
\* zero divisors included (inf or NaN, no exception).
Quotient100(diff, prior) ==
    IF ~IsNum(diff) \/ ~IsNum(prior) THEN Pct(0, 0)
    ELSE LET q == IF prior.v >= 0 THEN Pct(diff.v, prior.v)
                  ELSE Pct(-diff.v, -prior.v)
         IN  Pct(q.num * 100, q.den)

\* The percentage without the np.where guard.
PercentDifferenceUnguarded(diff, prior) == Quotient100(diff, prior)

\* np.where(df["Valor_2024"] != 0, (diff / prior) * 100, 0), one row.
PercentDifference(diff, prior) ==
    IF ~IsZero(prior) THEN Quotient100(diff, prior) ELSE Pct(0, 1)

\* _classify_variation with the first test written >= (the boundary 20
\* moved into the upper band).
classify_variation_inclusive(percentage) ==
    IF percentage.num >= 20 * percentage.den /\ ~PctIsNaN(percentage)
    THEN "Alto Crescimento"
    ELSE IF PctGT(percentage, 5) THEN "Crescimento Moderado"
    ELSE IF PctGT(percentage, -5) THEN "Estável"
    ELSE IF PctGT(percentage, -20) THEN "Declínio Moderado"
    ELSE "Alto Declínio"

\* FinancialDataProcessor._classify_variation
classify_variation(percentage) ==
    IF PctGT(percentage, 20) THEN "Alto Crescimento"
    ELSE IF PctGT(percentage, 5) THEN "Crescimento Moderado"
    ELSE IF PctGT(percentage, -5) THEN "Estável"
    ELSE IF PctGT(percentage, -20) THEN "Declínio Moderado"
    ELSE "Alto Declínio"

\* The columns calculate_differences reads.
CanCalculate(t) == HasCol(t, "Valor_2025") /\ HasCol(t, "Valor_2024")

\* One row of calculate_differences: the row with its derived columns
\* Diferença_R$ (diff), Diferença_% (pct) and Classificação (cls).  The
\* four *_Formatado display strings are not kept.
DerivedRow(t, r) ==
    LET prior == At(t, r, "Valor_2024")
        cur == At(t, r, "Valor_2025")
        diff == Subtract(cur, prior)
        pct == PercentDifference(diff, prior)
    IN  [idx |-> r.idx, cells |-> r.cells, diff |-> diff, pct |-> pct,
         cls |-> classify_variation(pct)]

\* FinancialDataProcessor.calculate_differences, on a table that has both
\* value columns (without them df["Valor_2025"] raises KeyError).
calculate_differences(t) ==
    [cols |-> t.cols \o <<"Diferença_R$", "Diferença_%", "Classificação">>,
     rows |-> [i \in 1..Len(t.rows) |-> DerivedRow(t, t.rows[i])]]

----------------------------------------------------------------------------
(* Summary Aggregator.                                                     *)

RECURSIVE SumSeq(_)
SumSeq(q) == IF Len(q) = 0 THEN 0 ELSE Head(q) + SumSeq(Tail(q))

\* A cell's contribution to Series.sum(): NaN is skipped.
Val(c) == IF IsNum(c) THEN c.v ELSE 0

\* The column sum that misses the first row.
ColumnSumSkipFirst(t, col) ==
    SumSeq([i \in 1..(Len(t.rows) - 1) |-> Val(At(t, t.rows[i + 1], col))])

\* df[col].sum() of a value column.
ColumnSum(t, col) ==
    SumSeq([i \in 1..Len(t.rows) |-> Val(At(t, t.rows[i], col))])

RECURSIVE PctSum(_)
PctSum(q) ==
    IF Len(q) = 0 THEN Pct(0, 1)
    ELSE LET h == Head(q)
             r == PctSum(Tail(q))
             l == LCM(h.den, r.den)
         IN  IF l = 0 THEN Pct(h.num + r.num, 0)
             ELSE Pct(h.num * (l \div h.den) + r.num * (l \div r.den), l)

\* df["Diferença_%"].mean(): NaN is skipped, the mean of nothing is NaN.
PctMean(t) ==
    LET NotNaN(r) == ~PctIsNaN(r.pct)
        kept == SelectSeq(t.rows, NotNaN)
        total == PctSum([i \in 1..Len(kept) |-> kept[i].pct])
    IN  IF Len(kept) = 0 THEN Pct(0, 0)
        ELSE Pct(total.num, total.den * Len(kept))

\* The row tests df["Diferença_R$"] > 0, < 0 and == 0 (all FALSE on NaN).
Positive(r) == IsNum(r.diff) /\ r.diff.v > 0
\* The negative test written <= 0.
NegativeOrZero(r) == IsNum(r.diff) /\ r.diff.v <= 0

Negative(r) == IsNum(r.diff) /\ r.diff.v < 0
Unchanged(r) == IsNum(r.diff) /\ r.diff.v = 0

\* len(df[mask]): the number of rows the boolean mask selects.
CountRows(mask) == Cardinality({i \in 1..Len(mask) : mask[i]})

\* The position of the last row that holds the largest percentage.
IdxMaxLast(t) ==
    CHOOSE i \in 1..Len(t.rows) :
        /\ ~PctIsNaN(t.rows[i].pct)
        /\ \A j \in 1..Len(t.rows) : ~PctGreater(t.rows[j].pct, t.rows[i].pct)
        /\ \A j \in (i + 1)..Len(t.rows) :
              PctIsNaN(t.rows[j].pct) \/ PctLess(t.rows[j].pct, t.rows[i].pct)

\* df["Diferença_%"].idxmax(): the position of the first row that holds
\* the largest percentage (NaN skipped); idxmin likewise.
IdxMax(t) ==
    CHOOSE i \in 1..Len(t.rows) :
        /\ ~PctIsNaN(t.rows[i].pct)
        /\ \A j \in 1..Len(t.rows) : ~PctGreater(t.rows[j].pct, t.rows[i].pct)
        /\ \A j \in 1..(i - 1) : PctIsNaN(t.rows[j].pct)
                                    \/ PctLess(t.rows[j].pct, t.rows[i].pct)

IdxMin(t) ==
    CHOOSE i \in 1..Len(t.rows) :
        /\ ~PctIsNaN(t.rows[i].pct)
        /\ \A j \in 1..Len(t.rows) : ~PctLess(t.rows[j].pct, t.rows[i].pct)
        /\ \A j \in 1..(i - 1) : PctIsNaN(t.rows[j].pct)
                                    \/ PctGreater(t.rows[j].pct, t.rows[i].pct)

\* The columns get_summary_statistics reads.
CanSummarise(t) ==
    /\ CanCalculate(t) /\ HasCol(t, "Conta")
    /\ HasCol(t, "Diferença_R$") /\ HasCol(t, "Diferença_%")

\* The empty dict get_summary_statistics returns when anything raised;
\* also the value of a result not computed yet.
NoValue == <<>>

\* FinancialDataProcessor.get_summary_statistics
get_summary_statistics(t) ==
    LET n == Len(t.rows)
        DiffVals == [i \in 1..n |-> Val(t.rows[i].diff)]
    IN  IF ~CanSummarise(t) THEN NoValue
        ELSE [total_accounts |-> Len(t.rows),
              total_2024 |-> ColumnSum(t, "Valor_2024"),
              total_2025 |-> ColumnSum(t, "Valor_2025"),
              total_difference |-> SumSeq(DiffVals),
              average_growth |-> PctMean(t),
              positive_variations |-> CountRows([i \in 1..n |-> Positive(t.rows[i])]),
              negative_variations |-> CountRows([i \in 1..n |-> Negative(t.rows[i])]),
              stable_variations |-> CountRows([i \in 1..n |-> Unchanged(t.rows[i])]),
              max_growth_account |->
                  IF ~IsEmpty(t) THEN At(t, t.rows[IdxMax(t)], "Conta")
                  ELSE StrCell(<<>>),
              max_growth_percentage |->
                  IF ~IsEmpty(t) THEN t.rows[IdxMax(t)].pct ELSE Pct(0, 0),
              max_decline_account |->
                  IF ~IsEmpty(t) THEN At(t, t.rows[IdxMin(t)], "Conta")
                  ELSE StrCell(<<>>),
              max_decline_percentage |->
                  IF ~IsEmpty(t) THEN t.rows[IdxMin(t)].pct ELSE Pct(0, 0)]

----------------------------------------------------------------------------
(* The sheets a run may read.  A wide sheet has the five columns of the    *)
(* input contract under headers of its own; a narrow sheet has fewer       *)
(* columns than column_names and none of the value columns.                *)

WideHeaders == <<"Descricao", "Ano2024", "AV2024", "Ano2025", "AV2025">>
NarrowHeaders == <<"Descricao", "Total">>

\* Prior-period cells: blank, 0, 100, 2.5, "abc", "R$ 1.234,56".
PriorCells ==
    {NaNCell, IntCell(0), IntCell(100), FloatCell(250),
     StrCell(<<"a", "b", "c">>),
     StrCell(<<"R", "$", " ", "1", ".", "2", "3", "4", ",", "5", "6">>)}

\* Current-period cells: 0, 80, 95, 100, 105, 120, "1.234".
CurrentCells ==
    {IntCell(0), IntCell(80), IntCell(95), IntCell(100), IntCell(105),
     IntCell(120), StrCell(<<"1", ".", "2", "3", "4">>)}

\* The account name of the sheet's i-th row.
AccountName(i) == StrCell(<<"C">> \o NatStr(i))

\* A sheet row is fully blank or has a name, a prior and a current cell.
WideChoices == {<<"blank">>} \cup ({"row"} \X PriorCells \X CurrentCells)

WideRow(i, ch) ==
    IF ch[1] = "blank" THEN <<NaNCell, NaNCell, NaNCell, NaNCell, NaNCell>>
    ELSE <<AccountName(i), ch[2], FloatCell(5000), ch[3], FloatCell(5000)>>

NarrowChoices == {<<"blank">>, <<"row", IntCell(100)>>,
                  <<"row", StrCell(<<"a", "b", "c">>)>>}

NarrowRow(i, ch) ==
    IF ch[1] = "blank" THEN <<NaNCell, NaNCell>>
    ELSE <<AccountName(i), ch[2]>>

\* The DataFrame read from a wide sheet whose i-th row is choice b[i],
\* and from a narrow one.
WideSheet(b) ==
    read_excel(WideHeaders, [i \in 1..Len(b) |-> WideRow(i, b[i])])

NarrowSheet(b) ==
    read_excel(NarrowHeaders, [i \in 1..Len(b) |-> NarrowRow(i, b[i])])

----------------------------------------------------------------------------
(* The run: process_complete_pipeline, then the statistics stage of        *)
(* run_analysis.                                                           *)

\* config.py: the required keys of CONFIG with their default values.
required_keys == {"input_file", "sheet_name", "output_xlsx", "output_pdf"}

CONFIG ==
    [input_file |-> "Pasta1.xlsx", sheet_name |-> "Plan1",
     output_xlsx |-> "comparativo.xlsx", output_pdf |-> "comparativo.pdf"]

\* The value None, and the values Python's "not" takes for empty: None and
\* the empty string.
PyNone == "<None>"
Falsy(v) == v \in {"", PyNone}

\* validate_config(): it takes no argument and looks every required key up
\* in the module-level CONFIG; TRUE when it returns, FALSE when it raises
\* ValueError.
validate_config == \A key \in required_keys : ~Falsy(CONFIG[key])

\* self.config = CONFIG.copy(); self.config.update(config_override)
Updated(config_override) ==
    [key \in required_keys |->
        IF key \in DOMAIN config_override THEN config_override[key]
        ELSE CONFIG[key]]

\* The overrides a caller may pass: any of the required keys set to the
\* empty string, to None or to a name.
OverrideValues == {"", PyNone, "other"}
Overrides == UNION {[keys -> OverrideValues] : keys \in SUBSET required_keys}

\* What load_data finds at input_file: no file, a sheet without rows, or a
\* sheet with rows.
InputStates == {"missing", "empty", "ok"}

Init ==
    /\ pc = "start"
    /\ raw = EmptyTable
    /\ clean = EmptyTable
    /\ df = EmptyTable
    /\ summary = NoValue
    /\ refiltered = EmptyTable
    /\ probe = NoValue
    /\ analyzer = NoValue
    /\ no_open = FALSE
    /\ disk \in {[input |-> i, xlsx |-> FALSE, pdf |-> FALSE, earlier |-> {}] :
                    i \in InputStates}
    /\ calls = <<>>
    /\ result = "none"
    /\ exit_code = -1

\* load_data: a missing file and an empty sheet raise; the pipeline and
\* run_analysis pass the exception on and the run fails.
LoadData ==
    /\ pc = "start"
    /\ \/ /\ disk.input = "ok"
          /\ \E n \in 1..MaxRows : \E b \in [1..n -> WideChoices] :
                /\ raw' = WideSheet(b)
                /\ pc' = "loaded"
       \/ /\ disk.input = "ok"
          /\ \E n \in 1..MaxRows : \E b \in [1..n -> NarrowChoices] :
                /\ raw' = NarrowSheet(b)
                /\ pc' = "loaded"
       \/ /\ disk.input = "empty"
          /\ IsEmpty(WideSheet(<<>>))
          /\ raw' = raw
          /\ pc' = "failed"
       \/ /\ disk.input = "missing"
          /\ raw' = raw
          /\ pc' = "failed"
    /\ UNCHANGED <<clean, df, summary, refiltered, probe>>
    /\ UNCHANGED runVars

\* clean_data working on the raw table itself, not on a copy.
CleanDataInPlace ==
    /\ pc = "loaded"
    /\ clean' = clean_data(raw)
    /\ raw' = clean_data(raw)
    /\ pc' = "cleaned"
    /\ UNCHANGED <<df, summary, refiltered, probe>>
    /\ UNCHANGED runVars

\* clean_data(raw_data)
CleanData ==
    /\ pc = "loaded"
    /\ clean' = clean_data(raw)
    /\ pc' = "cleaned"
    /\ UNCHANGED <<raw, df, summary, refiltered, probe>>
    /\ UNCHANGED runVars

\* calculate_differences(clean_data); self.df = processed_data.  A table
\* without the value columns raises KeyError and the run fails.
CalculateDifferences ==
    /\ pc = "cleaned"
    /\ \/ /\ CanCalculate(clean)
          /\ df' = calculate_differences(clean)
          /\ pc' = "calculated"
       \/ /\ ~CanCalculate(clean)
          /\ df' = df
          /\ pc' = "failed"
    /\ UNCHANGED <<raw, clean, summary, refiltered, probe>>
    /\ UNCHANGED runVars

\* One entry of the log of invoked stages: the operation, the output file
\* it works on ("" for none) and whether it reported success.
Call(op, file, ok) == [op |-> op, file |-> file, ok |-> ok]

\* Lines 62-67 with the row check left out: the statistics are computed
\* whatever the table holds.
SummaryStatisticsUnchecked ==
    /\ pc = "calculated"
    /\ summary' = get_summary_statistics(df)
    /\ calls' = Append(calls, Call("get_summary_statistics", "", TRUE))
    /\ pc' = "summarised"
    /\ UNCHANGED <<raw, clean, df, refiltered, probe>>
    /\ UNCHANGED <<analyzer, no_open, disk, result, exit_code>>

\* run_analysis, lines 62-67: an empty processed table raises ValueError,
\* otherwise the statistics are computed.
SummaryStatistics ==
    /\ pc = "calculated"
    /\ \/ /\ IsEmpty(df)
          /\ summary' = summary
          /\ calls' = calls
          /\ pc' = "failed"
       \/ /\ ~IsEmpty(df)
          /\ summary' = get_summary_statistics(df)
          /\ calls' = Append(calls, Call("get_summary_statistics", "", TRUE))
          /\ pc' = "summarised"
    /\ UNCHANGED <<raw, clean, df, refiltered, probe>>
    /\ UNCHANGED <<analyzer, no_open, disk, result, exit_code>>

\* _classify_variation(percentage) called directly on one percentage.
PctProbes == {Pct(n, 2) : n \in (-2 * ProbeRange)..(2 * ProbeRange)}

ClassifyVariation ==
    /\ pc = "start"
    /\ \E p \in PctProbes :
          probe' = [percentage |-> p, band |-> classify_variation(p)]
    /\ pc' = "classified"
    /\ UNCHANGED <<raw, clean, df, summary, refiltered>>
    /\ UNCHANGED runVars

Next ==
    \/ LoadData
    \/ CleanData
    \/ CalculateDifferences
    \/ SummaryStatistics
    \/ ClassifyVariation

Spec == Init /\ [][Next]_vars

\* The Row Filter applied to its own output.
CleanAgain ==
    /\ pc = "cleaned"
    /\ refiltered' = clean_data(clean)
    /\ pc' = "refiltered"
    /\ UNCHANGED <<raw, clean, df, summary, probe>>
    /\ UNCHANGED runVars

RefilterNext == LoadData \/ CleanData \/ CleanAgain

RefilterSpec == Init /\ [][RefilterNext]_vars

\* get_summary_statistics(df) called on its own on the processed table,
\* without the row check of run_analysis.
GetSummaryStatistics ==
    /\ pc = "calculated"
    /\ summary' = get_summary_statistics(df)
    /\ pc' = "direct"
    /\ UNCHANGED <<raw, clean, df, refiltered, probe>>
    /\ UNCHANGED runVars

StatisticsNext ==
    LoadData \/ CleanData \/ CalculateDifferences \/ GetSummaryStatistics

StatisticsSpec == Init /\ [][StatisticsNext]_vars

\* FinancialAnalyzer.__init__(config_override): the config is merged, then
\* validate_config() is called; when it raises no analyzer is constructed.
NewFinancialAnalyzer ==
    /\ pc = "start"
    /\ analyzer = NoValue
    /\ \E config_override \in Overrides :
          LET config == Updated(config_override)
          IN  /\ analyzer' = [config_override |-> config_override,
                              config |-> config]
              /\ pc' = IF validate_config THEN "constructed"
                       ELSE "config_error"
    /\ UNCHANGED <<raw, clean, df, summary, refiltered, probe>>
    /\ UNCHANGED <<no_open, disk, calls, result, exit_code>>

ConstructNext == NewFinancialAnalyzer

ConstructSpec == Init /\ [][ConstructNext]_vars

----------------------------------------------------------------------------
(* main and run_analysis: the pipeline followed by the export, the render  *)
(* and the opening of the outputs.                                         *)

\* The sheets of the run: rows that are blank, all zero (dropped), growing
\* by 20 percent (kept) and with a text prior value (dropped); a narrow
\* sheet, on which calculate_differences raises.
RunWide ==
    {<<"blank">>, <<"row", IntCell(0), IntCell(0)>>,
     <<"row", IntCell(100), IntCell(120)>>,
     <<"row", StrCell(<<"a", "b", "c">>), IntCell(80)>>}

RunNarrow == {<<"row", IntCell(100)>>}

\* The disk after a stage wrote the output file f, in full or in part: the
\* file exists and is no longer the one an earlier run left.
Written(f) ==
    [disk EXCEPT ![f] = TRUE, !.earlier = disk.earlier \ {f}]

\* main is started with or without --no-open and has constructed its
\* analyzer (the override of main sets no required key); the input is
\* missing, empty or present and each output file exists already, left
\* by an earlier run on the same paths, or does not.
RunInit ==
    /\ pc = "start"
    /\ raw = EmptyTable
    /\ clean = EmptyTable
    /\ df = EmptyTable
    /\ summary = NoValue
    /\ refiltered = EmptyTable
    /\ probe = NoValue
    /\ analyzer = [config_override |-> <<>>, config |-> CONFIG]
    /\ no_open \in BOOLEAN
    /\ disk \in {[input |-> i, xlsx |-> x, pdf |-> p,
                     earlier |-> {f \in {"xlsx", "pdf"} :
                                     (f = "xlsx" /\ x) \/ (f = "pdf" /\ p)}] :
                    i \in InputStates, x \in BOOLEAN, p \in BOOLEAN}
    /\ calls = <<>>
    /\ result = "none"
    /\ exit_code = -1

\* The load falling back to a one-row sheet when the input is missing or
\* empty.
LoadRunFallback ==
    /\ pc = "start"
    /\ \/ /\ disk.input = "ok"
          /\ \E n \in 1..MaxRows : \E b \in [1..n -> RunWide] :
                raw' = WideSheet(b)
       \/ /\ disk.input = "ok"
          /\ \E n \in 1..MaxRows : \E b \in [1..n -> RunNarrow] :
                raw' = NarrowSheet(b)
       \/ /\ disk.input # "ok"
          /\ raw' = WideSheet(<<<<"row", IntCell(100), IntCell(120)>>>>)
    /\ pc' = "loaded"
    /\ UNCHANGED <<clean, df, summary, refiltered, probe>>
    /\ UNCHANGED runVars

\* run_analysis, lines 47-60: create_backup copies existing outputs to
\* .backup files (not modelled) and the pipeline calls load_data, here on
\* the sheets of the run.
LoadRun ==
    /\ pc = "start"
    /\ \/ /\ disk.input = "ok"
          /\ \E n \in 1..MaxRows : \E b \in [1..n -> RunWide] :
                /\ raw' = WideSheet(b)
                /\ pc' = "loaded"
       \/ /\ disk.input = "ok"
          /\ \E n \in 1..MaxRows : \E b \in [1..n -> RunNarrow] :
                /\ raw' = NarrowSheet(b)
                /\ pc' = "loaded"
       \/ /\ disk.input = "empty"
          /\ IsEmpty(WideSheet(<<>>))
          /\ raw' = raw
          /\ pc' = "failed"
       \/ /\ disk.input = "missing"
          /\ raw' = raw
          /\ pc' = "failed"
    /\ UNCHANGED <<clean, df, summary, refiltered, probe>>
    /\ UNCHANGED runVars

\* run_analysis, lines 71-73, and save_excel: the workbook is written and
\* True returned, or an exception is caught, logged and False returned: the
\* failure came before the file was opened for writing (the disk is as it
\* was) or after (a partial file is left).  The caller only logs a warning.
SaveExcel ==
    /\ pc = "summarised"
    /\ \/ /\ calls' = Append(calls, Call("save_excel", "xlsx", TRUE))
          /\ disk' = Written("xlsx")
       \/ /\ calls' = Append(calls, Call("save_excel", "xlsx", FALSE))
          /\ \E touched \in BOOLEAN :
                disk' = IF touched THEN Written("xlsx") ELSE disk
    /\ pc' = "exported"
    /\ UNCHANGED <<raw, clean, df, summary, refiltered, probe>>
    /\ UNCHANGED <<analyzer, no_open, result, exit_code>>

\* The render attempted only after a successful export.
GenerateCompleteReportAfterExport ==
    /\ pc = "exported"
    /\ \/ /\ calls[Len(calls)].ok
          /\ calls' = Append(calls,
                             Call("generate_complete_report", "pdf", TRUE))
          /\ disk' = Written("pdf")
       \/ /\ ~calls[Len(calls)].ok
          /\ calls' = calls
          /\ disk' = disk
    /\ pc' = "rendered"
    /\ UNCHANGED <<raw, clean, df, summary, refiltered, probe>>
    /\ UNCHANGED <<analyzer, no_open, result, exit_code>>

\* run_analysis, lines 76-78, and generate_complete_report: the PDF is
\* written and True returned, or an exception is caught, logged and False
\* returned, before or after the file was opened for writing; the caller
\* only logs a warning.
GenerateCompleteReport ==
    /\ pc = "exported"
    /\ \/ /\ calls' = Append(calls,
                             Call("generate_complete_report", "pdf", TRUE))
          /\ disk' = Written("pdf")
       \/ /\ calls' = Append(calls,
                             Call("generate_complete_report", "pdf", FALSE))
          /\ \E touched \in BOOLEAN :
                disk' = IF touched THEN Written("pdf") ELSE disk
    /\ pc' = "rendered"
    /\ UNCHANGED <<raw, clean, df, summary, refiltered, probe>>
    /\ UNCHANGED <<analyzer, no_open, result, exit_code>>

\* run_analysis, lines 81-88: each output that exists on disk is handed to
\* open_file_system_specific (which never raises), then True is returned.
OpenFiles ==
    /\ pc = "rendered"
    /\ calls' = calls
          \o (IF disk.xlsx
              THEN <<Call("open_file_system_specific", "xlsx", TRUE)>>
              ELSE <<>>)
          \o (IF disk.pdf
              THEN <<Call("open_file_system_specific", "pdf", TRUE)>>
              ELSE <<>>)
    /\ result' = "True"
    /\ pc' = "returned"
    /\ UNCHANGED <<raw, clean, df, summary, refiltered, probe>>
    /\ UNCHANGED <<analyzer, no_open, disk, exit_code>>

\* run_analysis, lines 90-92: any exception of the stages is logged and
\* False returned.
Except ==
    /\ pc = "failed"
    /\ result' = "False"
    /\ pc' = "returned"
    /\ UNCHANGED <<raw, clean, df, summary, refiltered, probe>>
    /\ UNCHANGED <<analyzer, no_open, disk, calls, exit_code>>

\* main, lines 191-198: return 0 if success else 1.
MainExit ==
    /\ pc = "returned"
    /\ exit_code' = IF result = "True" THEN 0 ELSE 1
    /\ pc' = "exited"
    /\ UNCHANGED <<raw, clean, df, summary, refiltered, probe>>
    /\ UNCHANGED <<analyzer, no_open, disk, calls, result>>

\* main, lines 200-202: KeyboardInterrupt is not an Exception, so it
\* passes through run_analysis at any stage and main returns 1.
KeyboardInterrupt ==
    /\ pc \in {"loaded", "cleaned", "calculated", "summarised", "exported",
               "rendered", "failed"}
    /\ exit_code' = 1
    /\ pc' = "exited"
    /\ UNCHANGED <<raw, clean, df, summary, refiltered, probe>>
    /\ UNCHANGED <<analyzer, no_open, disk, calls, result>>

RunNext ==
    \/ LoadRun
    \/ CleanData
    \/ CalculateDifferences
    \/ SummaryStatistics
    \/ SaveExcel
    \/ GenerateCompleteReport
    \/ OpenFiles
    \/ Except
    \/ MainExit
    \/ KeyboardInterrupt

RunSpec == RunInit /\ [][RunNext]_vars

----------------------------------------------------------------------------
(* Properties.                                                             *)

\* The ordered band table of the Variation Classifier: the first row whose
\* threshold the percentage exceeds gives the band.
BandTable ==
    <<<<20, "Alto Crescimento">>, <<5, "Crescimento Moderado">>,
      <<-5, "Estável">>, <<-20, "Declínio Moderado">>>>

BandOf(p) ==
    LET hits == {i \in 1..Len(BandTable) : p.num > BandTable[i][1] * p.den}
    IN  IF hits = {} THEN "Alto Declínio"
        ELSE BandTable[CHOOSE i \in hits : \A j \in hits : i <= j][2]

\* The run has a processed table (calculate_differences returned).
Calculated == pc \in {"calculated", "summarised"}

\* The run has a cleaned table (clean_data returned).
Cleaned == pc \in {"cleaned", "refiltered"} \/ Calculated

Prior(t, r) == At(t, r, "Valor_2024")
Current(t, r) == At(t, r, "Valor_2025")

\* C1: _classify_variation gives every percentage the band of the ordered
\* table (> 20 high growth, > 5 moderate growth, > -5 stable, > -20
\* moderate decline, else high decline), the boundaries 20, 5, -5 and -20
\* falling in the lower band, and every row of the processed table carries
\* the band of its own percentage.
C1_ClassificationMatchesTable ==
    /\ pc = "classified" =>
          /\ probe.band = BandOf(probe.percentage)
          /\ probe.percentage = Pct(20, 1) => probe.band = "Crescimento Moderado"
          /\ probe.percentage = Pct(5, 1) => probe.band = "Estável"
          /\ probe.percentage = Pct(-5, 1) => probe.band = "Declínio Moderado"
          /\ probe.percentage = Pct(-20, 1) => probe.band = "Alto Declínio"
    /\ \A i \in 1..Len(df.rows) : df.rows[i].cls = BandOf(df.rows[i].pct)

\* A processed row whose percentage is exactly 20, in the moderate band.
C1_Witness ==
    /\ Calculated
    /\ \E i \in 1..Len(df.rows) :
          /\ df.rows[i].pct = Pct(20, 1)
          /\ df.rows[i].cls = "Crescimento Moderado"

\* C2: a row whose prior value is 0 gets the percentage exactly 0 whatever
\* its current value, and so the band stable; the calculation did not fail.
C2_ZeroPriorGivesZeroPercent ==
    /\ Calculated =>
          /\ Len(df.rows) = Len(clean.rows)
          /\ \A i \in 1..Len(df.rows) :
                IsZero(Prior(clean, clean.rows[i])) =>
                    /\ df.rows[i].pct = [num |-> 0, den |-> 1]
                    /\ df.rows[i].cls = "Estável"
    /\ (pc = "failed" /\ Len(clean.rows) > 0) => ~CanCalculate(clean)

\* A processed row with prior 0 and a current value that is not 0.
C2_Witness ==
    /\ Calculated
    /\ \E i \in 1..Len(df.rows) :
          /\ IsZero(Prior(df, df.rows[i]))
          /\ ~IsZero(Current(df, df.rows[i]))

\* C3: in every processed row the absolute difference is current minus
\* prior exactly, the percentage is (difference / prior) * 100 when prior
\* is not 0, and both come from the row's own values: the processed table
\* has the cleaned table's rows, one for one and in order.
C3_DeltaPerRow ==
    Calculated =>
        /\ Len(df.rows) = Len(clean.rows)
        /\ \A i \in 1..Len(df.rows) :
              LET r == df.rows[i]
                  prior == Prior(clean, clean.rows[i])
                  cur == Current(clean, clean.rows[i])
              IN  /\ r.idx = clean.rows[i].idx
                  /\ r.cells = clean.rows[i].cells
                  /\ IsNum(r.diff)
                  /\ r.diff.v = cur.v - prior.v
                  /\ prior.v > 0 => r.pct = Pct(r.diff.v * 100, prior.v)
                  /\ prior.v < 0 => r.pct = Pct(-(r.diff.v * 100), -prior.v)

\* Two processed rows with different priors, neither 0, and different
\* differences.
C3_Witness ==
    /\ Calculated
    /\ Len(df.rows) = 2
    /\ Prior(df, df.rows[1]).v # 0
    /\ Prior(df, df.rows[2]).v # 0
    /\ Prior(df, df.rows[1]).v # Prior(df, df.rows[2]).v
    /\ df.rows[1].diff.v # df.rows[2].diff.v
    /\ df.rows[1].diff.v < 0

\* Both value fields of the row are there, numeric and not both zero.
RowRetainable(t, r) ==
    /\ CanCalculate(t)
    /\ IsNum(Prior(t, r))
    /\ IsNum(Current(t, r))
    /\ ~(Prior(t, r).v = 0 /\ Current(t, r).v = 0)

\* C4: every row of the cleaned table, and of the processed table, has both
\* value fields present and numeric (not null) and not both zero.
C4_RetainedRowsHaveValues ==
    /\ \A i \in 1..Len(clean.rows) : RowRetainable(clean, clean.rows[i])
    /\ \A i \in 1..Len(df.rows) : RowRetainable(df, df.rows[i])

\* A sheet with a 0/0 row and another row that stays.
C4_Witness ==
    /\ Cleaned
    /\ Len(clean.rows) > 0
    /\ \E k \in 1..Len(raw.rows) :
          /\ IsZero(raw.rows[k].cells[2])
          /\ IsZero(raw.rows[k].cells[4])

\* Two tables hold the same rows in the same order with the same values
\* (100 and 100.0 are the same value).
SameValue(a, b) == IF IsNum(a) /\ IsNum(b) THEN a.v = b.v ELSE a = b

SameCollection(a, b) ==
    /\ a.cols = b.cols
    /\ Len(a.rows) = Len(b.rows)
    /\ \A i \in 1..Len(a.rows) :
          /\ a.rows[i].idx = b.rows[i].idx
          /\ \A j \in 1..Len(a.cols) :
                SameValue(a.rows[i].cells[j], b.rows[i].cells[j])

\* C5: the Row Filter is idempotent: clean_data applied to a table that
\* clean_data returned gives that table back, same rows, order and values.
C5_RefilterIdempotent ==
    pc = "refiltered" => SameCollection(refiltered, clean)

\* C6: clean_data keeps the input order of the rows that stay, and every
\* row of its result is one row of the input, none twice.
C6_OrderPreserved ==
    Cleaned =>
        /\ \A i, j \in 1..Len(clean.rows) :
              i < j => clean.rows[i].idx < clean.rows[j].idx
        /\ \A i \in 1..Len(clean.rows) :
              \E k \in 1..Len(raw.rows) :
                  /\ raw.rows[k].idx = clean.rows[i].idx
                  /\ raw.rows[k].cells[1] = clean.rows[i].cells[1]

\* Two rows went in and both stayed.
C6_Witness ==
    /\ Cleaned
    /\ Len(raw.rows) = 2
    /\ Len(clean.rows) = 2

\* The raw row a cleaned row came from (index labels are sheet positions).
RawRowOf(r) == raw.rows[r.idx + 1]

\* The cell does not parse as a number after stripping.
ParseFails(c) == Normalize(c).k = "nan"

\* C7: a value cell that does not parse becomes null without an error:
\* clean_data returns, exactly the rows with such a cell are dropped for it
\* (the others go only when both their values are zero), and the rows that
\* stay reach the processed table; the run does not fail while rows stay.
C7_ParseFailureDropsRow ==
    /\ (Cleaned /\ CanCalculate(clean)) =>
          \A k \in 1..Len(raw.rows) :
              LET p == raw.rows[k].cells[ColPos(clean, "Valor_2024")]
                  c == raw.rows[k].cells[ColPos(clean, "Valor_2025")]
                  failing == ParseFails(p) \/ ParseFails(c)
                  zero == Normalize(p).v = 0 /\ Normalize(c).v = 0
                  stays == \E i \in 1..Len(clean.rows) :
                              clean.rows[i].idx = raw.rows[k].idx
              IN  /\ failing => ~stays
                  /\ (~failing /\ ~zero) => stays
    /\ Calculated =>
          /\ Len(df.rows) = Len(clean.rows)
          /\ \A i \in 1..Len(df.rows) : df.rows[i].idx = clean.rows[i].idx
    /\ pc = "failed" => Len(clean.rows) = 0

\* A sheet with an unparseable text cell in one row and another row that
\* reached the statistics stage.
C7_Witness ==
    /\ pc = "summarised"
    /\ Len(raw.rows) = 2
    /\ Len(df.rows) = 1
    /\ \E k \in 1..2 :
          /\ raw.rows[k].cells[2].k = "str"
          /\ ParseFails(raw.rows[k].cells[2])

\* The separator convention of C8: an optional "R$" and blanks, digit
\* groups of three separated by periods (the first of one to three
\* digits), and at most one comma followed by one or two decimals.
Unsigned(t) ==
    LET Kept(ch) == ch \notin {"R", "$", " "}
    IN  SelectSeq(t, Kept)

CommaAt(u) ==
    IF \E i \in 1..Len(u) : u[i] = ","
    THEN CHOOSE i \in 1..Len(u) : u[i] = "," /\ \A j \in 1..(i - 1) : u[j] # ","
    ELSE Len(u) + 1

WholePart(u) == SubSeq(u, 1, CommaAt(u) - 1)
DecimalPart(u) == SubSeq(u, CommaAt(u) + 1, Len(u))

GroupedDigits(w) ==
    /\ Len(w) > 0
    /\ IsDigit(w[1])
    /\ \A i \in 1..Len(w) : IsDigit(w[i]) \/ w[i] = "."
    /\ \A i \in 1..Len(w) :
          w[i] = "." =>
              /\ i + 3 <= Len(w)
              /\ \A j \in (i + 1)..(i + 3) : IsDigit(w[j])
              /\ i + 3 = Len(w) \/ w[i + 4] = "."
              /\ i <= 4 \/ \E j \in 1..(i - 1) : w[j] = "."

FollowsConvention(t) ==
    LET u == Unsigned(t)
    IN  /\ GroupedDigits(WholePart(u))
        /\ CommaAt(u) <= Len(u) =>
              /\ Len(DecimalPart(u)) \in {1, 2}
              /\ AllDigits(DecimalPart(u))

\* The value, in hundredths, of a text that follows the convention.
ConventionValue(t) ==
    LET u == Unsigned(t)
        d == DecimalPart(u)
        IsDigitCh(ch) == IsDigit(ch)
    IN  ParseNat(SelectSeq(WholePart(u), IsDigitCh)) * 100
        + (IF Len(d) = 1 THEN 10 * ParseNat(d) ELSE ParseNat(d))

\* C8: a value cell whose text follows the convention (period groups,
\* comma decimals) is normalized to the value the convention gives it:
\* "R$ 1.234,56" to 1234.56 and "1.234" to 1234.
C8_ConventionApplied ==
    (Cleaned /\ CanCalculate(clean)) =>
        \A i \in 1..Len(clean.rows) :
            \A col \in {"Valor_2024", "Valor_2025"} :
                LET rc == RawRowOf(clean.rows[i]).cells[ColPos(clean, col)]
                IN  (rc.k = "str" /\ FollowsConvention(rc.s)) =>
                        At(clean, clean.rows[i], col).v = ConventionValue(rc.s)

\* C9: the statistics satisfy total_2025 - total_2024 = total_difference,
\* each total being the sum of its column over all processed rows.
C9_TotalsIdentity ==
    pc = "summarised" =>
        /\ summary.total_2025 - summary.total_2024 = summary.total_difference
        /\ summary.total_2024
              = SumSeq([i \in 1..Len(df.rows) |-> Prior(df, df.rows[i]).v])
        /\ summary.total_2025
              = SumSeq([i \in 1..Len(df.rows) |-> Current(df, df.rows[i]).v])

\* Statistics over two rows whose differences do not cancel.
C9_Witness ==
    /\ pc = "summarised"
    /\ summary.total_accounts = 2
    /\ summary.total_difference # 0
    /\ summary.total_2024 # 0

\* C10: the three counts partition the rows by the sign of the absolute
\* difference: they add up to total_accounts, which is the row count.
C10_CountsPartition ==
    pc = "summarised" =>
        /\ summary.positive_variations + summary.negative_variations
              + summary.stable_variations = summary.total_accounts
        /\ summary.total_accounts = Len(df.rows)
        /\ summary.positive_variations
              = Cardinality({i \in 1..Len(df.rows) :
                                Current(df, df.rows[i]).v > Prior(df, df.rows[i]).v})
        /\ summary.stable_variations
              = Cardinality({i \in 1..Len(df.rows) :
                                Current(df, df.rows[i]).v = Prior(df, df.rows[i]).v})

\* Statistics over one unchanged row and one row that fell.
C10_Witness ==
    /\ pc = "summarised"
    /\ summary.stable_variations = 1
    /\ summary.negative_variations = 1

\* C11: max_growth_account and max_decline_account name the rows with the
\* largest and the smallest percentage, the first such row in input order
\* when several rows tie, and max_growth_percentage and
\* max_decline_percentage are the percentages of those rows.
C11_ExtremesAreFirstOccurrence ==
    pc = "summarised" =>
        /\ \E i \in 1..Len(df.rows) :
              /\ summary.max_growth_account = At(df, df.rows[i], "Conta")
              /\ summary.max_growth_percentage = df.rows[i].pct
              /\ \A j \in 1..Len(df.rows) :
                    ~PctGreater(df.rows[j].pct, df.rows[i].pct)
              /\ \A j \in 1..(i - 1) : PctLess(df.rows[j].pct, df.rows[i].pct)
        /\ \E i \in 1..Len(df.rows) :
              /\ summary.max_decline_account = At(df, df.rows[i], "Conta")
              /\ summary.max_decline_percentage = df.rows[i].pct
              /\ \A j \in 1..Len(df.rows) :
                    ~PctLess(df.rows[j].pct, df.rows[i].pct)
              /\ \A j \in 1..(i - 1) :
                    PctGreater(df.rows[j].pct, df.rows[i].pct)

\* Statistics over two rows that tie at 20 percent: the first one is both
\* the largest growth and the largest decline.
C11_Witness ==
    /\ pc = "summarised"
    /\ Len(df.rows) = 2
    /\ df.rows[1].pct = Pct(20, 1)
    /\ df.rows[2].pct = Pct(20, 1)
    /\ summary.max_growth_account = At(df, df.rows[1], "Conta")
    /\ summary.max_decline_account = At(df, df.rows[1], "Conta")
    /\ At(df, df.rows[1], "Conta") # At(df, df.rows[2], "Conta")

\* A statistics object: the dict with the twelve statistics, as opposed to
\* the empty dict.
IsStatistics(s) == "total_accounts" \in DOMAIN s

\* C12: get_summary_statistics called on an empty collection of processed
\* rows signals an error and returns no statistics object (one whose
\* extremes would be empty or undefined).
C12_EmptySignalsError ==
    (pc = "direct" /\ IsEmpty(df)) => ~IsStatistics(summary)

\* The stages of run_analysis invoked so far, by operation name.
Invoked(op) == \E i \in 1..Len(calls) : calls[i].op = op

\* The pipeline returned a processed table without rows.
ZeroRowsProcessed == Len(df.cols) > 0 /\ IsEmpty(df)

\* C13: when the pipeline leaves zero rows, run_analysis aborts before the
\* statistics, the export, the render and the opening of files, none of
\* which is invoked, and it returns False.
C13_ZeroRowsAbort ==
    ZeroRowsProcessed =>
        /\ calls = <<>>
        /\ pc \in {"calculated", "failed", "returned", "exited"}
        /\ result # "True"
        /\ pc = "returned" => result = "False"

\* A run over a sheet with rows, all of them filtered out, that returned
\* False.
C13_Witness ==
    /\ ZeroRowsProcessed
    /\ Len(raw.rows) > 0
    /\ pc = "returned"
    /\ result = "False"

\* The stage op was invoked and reported the outcome ok.
Outcome(op, ok) ==
    \E i \in 1..Len(calls) : calls[i].op = op /\ calls[i].ok = ok

\* run_analysis went past the render stage.
PastRender == pc \in {"rendered", "returned"} \/ (pc = "exited" /\ result # "none")

\* C14: with a non-empty processed table the export and the render are
\* both attempted, in that order, whatever the outcome of the other: a
\* failed export does not prevent the render, and a failed render leaves
\* the exported workbook in place.
C14_ExportAndRenderIndependent ==
    /\ (~IsEmpty(df) /\ PastRender) =>
          \E i, j \in 1..Len(calls) :
              /\ i < j
              /\ calls[i].op = "save_excel"
              /\ calls[j].op = "generate_complete_report"
    /\ (PastRender /\ Outcome("save_excel", TRUE)) => disk.xlsx
    /\ pc = "exported" => Invoked("save_excel")

\* A run whose export failed and whose render was then attempted and
\* succeeded.
C14_Witness ==
    /\ pc = "returned"
    /\ ~IsEmpty(df)
    /\ Outcome("save_excel", FALSE)
    /\ Outcome("generate_complete_report", TRUE)

\* A returned run in which the export or the render reported failure.
PartialSuccess ==
    /\ pc = "returned"
    /\ Outcome("save_excel", FALSE) \/ Outcome("generate_complete_report", FALSE)

\* C15: the outcome run_analysis reports for a run whose export or render
\* failed is neither the outcome of a full success (True) nor that of a
\* total failure (False).
C15_PartialSuccessDistinct ==
    PartialSuccess => (result # "True" /\ result # "False")

\* The run succeeded: run_analysis returned after an export and a render
\* that both reported success.
RunSucceeded ==
    /\ result # "none"
    /\ Outcome("save_excel", TRUE)
    /\ Outcome("generate_complete_report", TRUE)

\* C16: main exits with 0 exactly when the run succeeded and with 1 on any
\* failure or cancellation: a missing input, an empty result, a failed
\* export and a failed render each give 1.
C16_ExitCodeReflectsSuccess ==
    pc = "exited" =>
        /\ exit_code \in {0, 1}
        /\ exit_code = 0 <=> RunSucceeded

\* C17: a missing input file or an empty sheet is fatal: load_data raises,
\* no table is loaded, cleaned or processed, no statistics, export, render
\* or opening is invoked, and run_analysis returns False.
C17_MissingInputFatal ==
    (disk.input # "ok" /\ pc # "start") =>
        /\ raw = EmptyTable /\ clean = EmptyTable /\ df = EmptyTable
        /\ calls = <<>>
        /\ pc \in {"failed", "returned", "exited"}
        /\ result # "True"
        /\ pc = "returned" => result = "False"
        /\ exit_code \in {-1, 1}

\* A run on a missing input that returned False, with both output files of
\* an earlier run on disk and not opened.
C17_Witness ==
    /\ disk.input = "missing"
    /\ disk.xlsx /\ disk.pdf
    /\ pc = "returned"
    /\ result = "False"
    /\ calls = <<>>

\* C18: a run started with --no-open never hands a file to
\* open_file_system_specific; without the flag the outputs that exist are
\* opened after the export and the render.
C18_NoOpenRespected ==
    /\ no_open => ~Invoked("open_file_system_specific")
    /\ (~no_open /\ pc = "returned" /\ result = "True") =>
          /\ disk.xlsx => calls[Len(calls) - (IF disk.pdf THEN 1 ELSE 0)]
                             = Call("open_file_system_specific", "xlsx", TRUE)
          /\ disk.pdf => calls[Len(calls)]
                             = Call("open_file_system_specific", "pdf", TRUE)

\* C19: no stage changes its input: clean_data leaves the raw table as it
\* was loaded, calculate_differences leaves the cleaned table unchanged, and
\* get_summary_statistics, save_excel and generate_complete_report (and
\* every later step) leave the processed table unchanged.
C19_StagesLeaveInputsAlone ==
    [][/\ pc # "start" => raw' = raw
       /\ pc \notin {"start", "loaded"} => clean' = clean
       /\ pc \notin {"start", "loaded", "cleaned"} => df' = df]_vars

\* A run past the render whose cleaning dropped a row and whose
\* calculation added columns: every stage has acted on a table that
\* differs from its output.
C19_Witness ==
    /\ pc = "rendered"
    /\ Len(raw.rows) = 2
    /\ Len(clean.rows) = 1
    /\ raw.cols # clean.cols
    /\ Len(df.rows) = 1
    /\ df.cols # clean.cols
    /\ Invoked("save_excel") /\ Invoked("generate_complete_report")

\* C20: the Numeric Normalizer preserves a cell that is already numeric:
\* whole or fractional, in a column stored as integers or as floats, the
\* normalized value of a retained row equals the raw value.
C20_NumericCellPreserved ==
    (Cleaned /\ CanCalculate(clean)) =>
        \A i \in 1..Len(clean.rows) : \A col \in {"Valor_2024", "Valor_2025"} :
            LET r == clean.rows[i]
                cell == RawRowOf(r).cells[ColPos(clean, col)]
            IN  IsNum(cell) => (IsNum(At(clean, r, col))
                                /\ At(clean, r, col).v = cell.v)

\* The tracked value columns the cleaned table has.
TrackedColumns ==
    {value_columns[c] : c \in {c \in 1..Len(value_columns) :
                                  HasCol(clean, value_columns[c])}}

\* C21: clean_data removes a row only for cause: a raw row that is not
\* fully blank is missing from the cleaned table only when one of its
\* tracked value cells fails to parse or when it has tracked value cells
\* and all of them are exactly zero; from a table without any tracked
\* value column no non-blank row is removed.
C21_RowsRemovedOnlyForCause ==
    Cleaned =>
        \A k \in 1..Len(raw.rows) :
            LET cells == raw.rows[k].cells
                blank == \A j \in 1..Len(cells) : cells[j].k = "nan"
                stays == \E i \in 1..Len(clean.rows) :
                            clean.rows[i].idx = raw.rows[k].idx
                failing == \E col \in TrackedColumns :
                              ParseFails(cells[ColPos(clean, col)])
                zero == /\ TrackedColumns # {}
                        /\ \A col \in TrackedColumns :
                              IsZero(Normalize(cells[ColPos(clean, col)]))
            IN  (~blank /\ ~stays) => (failing \/ zero)

\* The override sets a required key to an empty value.
OverrideEmpties ==
    \E key \in DOMAIN analyzer.config_override :
        Falsy(analyzer.config_override[key])

\* C22: FinancialAnalyzer(config_override) validates the defaults merged
\* with the override: an override that sets a required key to an empty
\* value makes the construction raise ValueError, and after a construction
\* that succeeded the four required keys of the analyzer's own config are
\* non-empty.
C22_EffectiveConfigValidated ==
    /\ (pc \in {"constructed", "config_error"} /\ OverrideEmpties)
          => pc = "config_error"
    /\ pc = "constructed" =>
          \A key \in required_keys : ~Falsy(analyzer.config[key])

\* C23: every output file handed to open_file_system_specific was written
\* by the export or the render of the same run: a file left by an earlier
\* run, which a failed save_excel or generate_complete_report did not
\* replace, is not opened.
C23_OpenedOutputsAreFresh ==
    \A i \in 1..Len(calls) :
        calls[i].op = "open_file_system_specific"
            => calls[i].file \notin disk.earlier

====
